---- MODULE Spec2Model ----
(***************************************************************************)
(* Model of the "Am I Coast FIRE?" page (src/app/page.tsx): the eight      *)
(* numeric inputs held in React state, the setters behind the input        *)
(* widgets, and the decision engine recomputed from the inputs on every    *)
(* render (rule checks, gaps, verdict, driver, next step, sensitivity).    *)
(*                                                                         *)
(* Numbers.  A JavaScript number is modelled as a pair <<n, d>>:           *)
(*   d > 0      the exact rational n/d in lowest terms,                    *)
(*   <<1, 0>>   +Infinity,   <<-1, 0>>  -Infinity,   <<0, 0>>  NaN.        *)
(* The operators below follow the IEEE-754 rules JavaScript uses for the   *)
(* special values (x/0, Infinity - Infinity, comparisons with NaN, ...).   *)
(* Finite arithmetic is exact: binary rounding of doubles is not modelled. *)
(* A zero divisor is always +0 here (it only arises from spend = 0).       *)
(***************************************************************************)
EXTENDS Integers, Sequences, FiniteSets

\* ---------------------------------------------------------------------------
\* Bounds of the explored input grid (multiples typed into the widgets).
\* ---------------------------------------------------------------------------
MaxNetWorth == 7

MaxSalary == 1

MaxInvestReturn == 1

MaxSpend == 2

MaxCashOnHand == 3

\* ---------------------------------------------------------------------------
\* JavaScript number arithmetic
\* ---------------------------------------------------------------------------
Abs(n) == IF n < 0 THEN -n ELSE n

RECURSIVE GCD(_, _)
GCD(a, b) == IF b = 0 THEN a ELSE GCD(b, a % b)

\* n/d in lowest terms, d > 0
Rat(n, d) == LET g == GCD(Abs(n), d) IN <<n \div g, d \div g>>

Num(n) == <<n, 1>>

PosInf == <<1, 0>>

NegInf == <<-1, 0>>

NaN == <<0, 0>>

IsNaN(x) == x = NaN

IsInf(x) == x[2] = 0 /\ x[1] # 0

IsFinite(x) == x[2] > 0

Sgn(x) == IF x[1] > 0 THEN 1 ELSE IF x[1] < 0 THEN -1 ELSE 0

Neg(x) == <<-x[1], x[2]>>

\* x + y
Add(x, y) ==
    IF x[2] = 1 /\ y[2] = 1 THEN <<x[1] + y[1], 1>>
    ELSE IF IsNaN(x) \/ IsNaN(y) THEN NaN
    ELSE IF IsInf(x) /\ IsInf(y) THEN (IF x = y THEN x ELSE NaN)
    ELSE IF IsInf(x) THEN x
    ELSE IF IsInf(y) THEN y
    ELSE Rat(x[1] * y[2] + y[1] * x[2], x[2] * y[2])

\* x - y
Sub(x, y) == Add(x, Neg(y))

\* x * y
Mul(x, y) ==
    IF x[2] = 1 /\ y[2] = 1 THEN <<x[1] * y[1], 1>>
    ELSE IF IsNaN(x) \/ IsNaN(y) THEN NaN
    ELSE IF IsInf(x) \/ IsInf(y)
         THEN (IF Sgn(x) * Sgn(y) = 0 THEN NaN ELSE <<Sgn(x) * Sgn(y), 0>>)
    ELSE LET g1 == GCD(Abs(x[1]), y[2])
             g2 == GCD(Abs(y[1]), x[2])
         IN  <<(x[1] \div g1) * (y[1] \div g2), (x[2] \div g2) * (y[2] \div g1)>>

\* x / y
Div(x, y) ==
    IF x[2] > 0 /\ y[2] > 0 /\ y[1] > 0 THEN Mul(x, <<y[2], y[1]>>)
    ELSE IF IsNaN(x) \/ IsNaN(y) THEN NaN
    ELSE IF IsInf(x) /\ IsInf(y) THEN NaN
    ELSE IF IsInf(x) THEN (IF Sgn(y) < 0 THEN Neg(x) ELSE x)
    ELSE IF IsInf(y) THEN Num(0)
    ELSE IF y[1] = 0 THEN (IF x[1] = 0 THEN NaN ELSE <<Sgn(x), 0>>)
    ELSE Mul(x, <<Sgn(y) * y[2], Abs(y[1])>>)

\* x <= y   (false whenever an operand is NaN)
Le(x, y) ==
    IF x[2] > 0 /\ y[2] > 0 THEN x[1] * y[2] <= y[1] * x[2]
    ELSE IF IsNaN(x) \/ IsNaN(y) THEN FALSE
    ELSE IF IsInf(x) /\ IsInf(y) THEN x[1] <= y[1]
    ELSE x[1] * y[2] <= y[1] * x[2]

\* x >= y
Ge(x, y) == Le(y, x)

\* x > y
Gt(x, y) ==
    IF x[2] > 0 /\ y[2] > 0 THEN x[1] * y[2] > y[1] * x[2]
    ELSE ~IsNaN(x) /\ ~IsNaN(y) /\ ~Le(x, y)

\* x < y
Lt(x, y) == Gt(y, x)

\* Math.max(x, y)
MathMax(x, y) ==
    IF IsNaN(x) \/ IsNaN(y) THEN NaN ELSE IF Le(x, y) THEN y ELSE x

\* Math.min(...s) for a non-empty sequence s
RECURSIVE MathMin(_)
MathMin(s) ==
    IF Len(s) = 1 THEN s[1]
    ELSE LET m == MathMin(Tail(s))
         IN  IF IsNaN(s[1]) \/ IsNaN(m) THEN NaN
             ELSE IF Le(s[1], m) THEN s[1] ELSE m

\* Math.round taken as rounding up to the next integer
MathRound_Ceil(x) ==
    IF ~IsFinite(x) THEN x ELSE Num(-((-x[1]) \div x[2]))

\* Math.round(x): nearest integer, halves towards +Infinity
MathRound(x) ==
    IF ~IsFinite(x) THEN x ELSE Num((2 * x[1] + x[2]) \div (2 * x[2]))

\* ---------------------------------------------------------------------------
\* Tunable constants
\* ---------------------------------------------------------------------------
TARGET_SALARY_VS_NW == Rat(10, 100)

CASH_BUFFER_MONTHS == 6

CLOSE_BAND_FRACTION == Rat(5, 100)

\* ---------------------------------------------------------------------------
\* State: the useState cells of Page.  (state and filing are display-only
\* strings that no computation reads; they are not part of the model.)
\* ---------------------------------------------------------------------------
VARIABLES netWorth, salary, salaryTaxRate, investReturn, investTaxRate,
          spend, sideIncome, cashOnHand

vars == <<netWorth, salary, salaryTaxRate, investReturn, investTaxRate,
          spend, sideIncome, cashOnHand>>

\* The current input snapshot, as read by one render.
Inputs ==
    [netWorth |-> netWorth, salary |-> salary, salaryTaxRate |-> salaryTaxRate,
     investReturn |-> investReturn, investTaxRate |-> investTaxRate,
     spend |-> spend, sideIncome |-> sideIncome, cashOnHand |-> cashOnHand]

\* useState defaults
Init ==
    /\ netWorth = Num(3000000)
    /\ salary = Num(480000)
    /\ salaryTaxRate = Rat(25, 100)
    /\ investReturn = Rat(10, 100)
    /\ investTaxRate = Rat(20, 100)
    /\ spend = Num(180000)
    /\ sideIncome = Num(0)
    /\ cashOnHand = Num(60000)

\* ---------------------------------------------------------------------------
\* Input widgets
\* ---------------------------------------------------------------------------
\* NumberInput.onChange: Number(e.target.value || 0); the typed text is a decimal
\* numeral with two fraction digits, given here as its count c of hundredths
NumberInput(c) == Rat(c, 100)

\* PercentInput.onChange: Math.max(0, Number(e.target.value) / 100)
PercentInput(p) == MathMax(Num(0), Div(Num(p), Num(100)))

\* Values typed into the widgets (amounts in hundredths, rates in percent):
\* multiples of a step up to the bound for the amounts and the return, fixed
\* sets for the two tax rates and side income; spend can also be typed as 0.50
\* and the return as 100%
\* (a negative percentage is clamped to 0 by PercentInput)
NetWorthTyped == {60000000 * k : k \in -1..MaxNetWorth}

SalaryTyped == {48000000 * k : k \in 0..MaxSalary}

SalaryTaxRateTyped == {-25, 0, 25}

InvestReturnTyped == {10 * k : k \in -1..MaxInvestReturn} \cup {100}

InvestTaxRateTyped == {-20, 0, 20}

SpendTyped == {9000000 * k : k \in -1..MaxSpend} \cup {50}

SideIncomeTyped == {0, 9000000}

CashOnHandTyped == {3000000 * k : k \in 0..MaxCashOnHand}

setNetWorth ==
    /\ \E n \in NetWorthTyped : netWorth' = NumberInput(n)
    /\ UNCHANGED <<salary, salaryTaxRate, investReturn, investTaxRate,
                   spend, sideIncome, cashOnHand>>

setSalary ==
    /\ \E n \in SalaryTyped : salary' = NumberInput(n)
    /\ UNCHANGED <<netWorth, salaryTaxRate, investReturn, investTaxRate,
                   spend, sideIncome, cashOnHand>>

setSalaryTaxRate ==
    /\ \E p \in SalaryTaxRateTyped : salaryTaxRate' = PercentInput(p)
    /\ UNCHANGED <<netWorth, salary, investReturn, investTaxRate,
                   spend, sideIncome, cashOnHand>>

setInvestReturn ==
    /\ \E p \in InvestReturnTyped : investReturn' = PercentInput(p)
    /\ UNCHANGED <<netWorth, salary, salaryTaxRate, investTaxRate,
                   spend, sideIncome, cashOnHand>>

setInvestTaxRate ==
    /\ \E p \in InvestTaxRateTyped : investTaxRate' = PercentInput(p)
    /\ UNCHANGED <<netWorth, salary, salaryTaxRate, investReturn,
                   spend, sideIncome, cashOnHand>>

setSpend ==
    /\ \E n \in SpendTyped : spend' = NumberInput(n)
    /\ UNCHANGED <<netWorth, salary, salaryTaxRate, investReturn,
                   investTaxRate, sideIncome, cashOnHand>>

setSideIncome ==
    /\ \E n \in SideIncomeTyped : sideIncome' = NumberInput(n)
    /\ UNCHANGED <<netWorth, salary, salaryTaxRate, investReturn,
                   investTaxRate, spend, cashOnHand>>

setCashOnHand ==
    /\ \E n \in CashOnHandTyped : cashOnHand' = NumberInput(n)
    /\ UNCHANGED <<netWorth, salary, salaryTaxRate, investReturn,
                   investTaxRate, spend, sideIncome>>

Next ==
    \/ setNetWorth
    \/ setSalary
    \/ setSalaryTaxRate
    \/ setInvestReturn
    \/ setInvestTaxRate
    \/ setSpend
    \/ setSideIncome
    \/ setCashOnHand

Spec == Init /\ [][Next]_vars

\* ---------------------------------------------------------------------------
\* Decision engine: every value below is recomputed from the input snapshot i
\* ---------------------------------------------------------------------------
afterTaxSalary(i) == Mul(i.salary, Sub(Num(1), i.salaryTaxRate))

salaryVsNW(i) ==
    IF Gt(i.netWorth, Num(0)) THEN Div(afterTaxSalary(i), i.netWorth) ELSE PosInf

afterTaxPortfolioReturn(i) ==
    Mul(Mul(i.netWorth, i.investReturn), Sub(Num(1), i.investTaxRate))

\* (spend / 12) * CASH_BUFFER_MONTHS
bufferTarget(i) == Mul(Div(i.spend, Num(12)), Num(CASH_BUFFER_MONTHS))

\* passRuleB with the comparison reversed
passRuleB_Reversed(i) == Ge(salaryVsNW(i), TARGET_SALARY_VS_NW)

passRuleB(i) == Le(salaryVsNW(i), TARGET_SALARY_VS_NW)

passRuleC(i) == Ge(Add(afterTaxPortfolioReturn(i), i.sideIncome), i.spend)

passBuffer(i) == Ge(i.cashOnHand, bufferTarget(i))

bGap(i) == Sub(TARGET_SALARY_VS_NW, salaryVsNW(i))

cGap(i) ==
    Div(Sub(Add(afterTaxPortfolioReturn(i), i.sideIncome), i.spend), i.spend)

bufferGap(i) == Div(Sub(i.cashOnHand, bufferTarget(i)), bufferTarget(i))

failingGaps(i) ==
    << IF passRuleB(i) THEN PosInf ELSE bGap(i),
       IF passRuleC(i) THEN PosInf ELSE cGap(i),
       IF passBuffer(i) THEN PosInf ELSE bufferGap(i) >>

worstGap(i) == MathMin(failingGaps(i))

isYes(i) == passRuleB(i) /\ passRuleC(i) /\ passBuffer(i)

\* isClose with the band boundary excluded
isClose_Strict(i) == ~isYes(i) /\ Gt(worstGap(i), Neg(CLOSE_BAND_FRACTION))

isClose(i) == ~isYes(i) /\ Ge(worstGap(i), Neg(CLOSE_BAND_FRACTION))

verdict(i) == IF isYes(i) THEN "YES" ELSE IF isClose(i) THEN "CLOSE" ELSE "NOT YET"

\* driver with the Buffer test placed before the Rule C test
driver_BufferFirst(i) ==
    IF ~passRuleB(i) /\ Le(bGap(i), cGap(i)) /\ Le(bGap(i), bufferGap(i))
    THEN "Salary too large vs net worth"
    ELSE IF ~passBuffer(i) /\ Le(bufferGap(i), bGap(i)) /\ Le(bufferGap(i), cGap(i))
    THEN "Insufficient cash buffer"
    ELSE IF ~passRuleC(i) /\ Le(cGap(i), bGap(i)) /\ Le(cGap(i), bufferGap(i))
    THEN "Spending too high vs portfolio + side income"
    ELSE IF isYes(i) THEN "You're good" ELSE "Multiple factors"

\* Top driver (most constraining rule)
driver(i) ==
    IF ~passRuleB(i) /\ Le(bGap(i), cGap(i)) /\ Le(bGap(i), bufferGap(i))
    THEN "Salary too large vs net worth"
    ELSE IF ~passRuleC(i) /\ Le(cGap(i), bGap(i)) /\ Le(cGap(i), bufferGap(i))
    THEN "Spending too high vs portfolio + side income"
    ELSE IF ~passBuffer(i) /\ Le(bufferGap(i), bGap(i)) /\ Le(bufferGap(i), cGap(i))
    THEN "Insufficient cash buffer"
    ELSE IF isYes(i) THEN "You're good" ELSE "Multiple factors"

\* Lever magnitudes computed by nextStep
neededNWforB(i) == Div(afterTaxSalary(i), TARGET_SALARY_VS_NW)

deltaNW_B(i) == MathMax(Num(0), Sub(neededNWforB(i), i.netWorth))

shortfallC(i) ==
    MathMax(Num(0), Sub(i.spend, Add(afterTaxPortfolioReturn(i), i.sideIncome)))

atRetPerDollar(i) == Mul(i.investReturn, Sub(Num(1), i.investTaxRate))

\* deltaNW_C multiplying by the after-tax return rate instead of dividing
deltaNW_C_Times(i) ==
    IF Gt(atRetPerDollar(i), Num(0)) THEN Mul(shortfallC(i), atRetPerDollar(i))
    ELSE PosInf

deltaNW_C(i) ==
    IF Gt(atRetPerDollar(i), Num(0)) THEN Div(shortfallC(i), atRetPerDollar(i))
    ELSE PosInf

bufferShort(i) == MathMax(Num(0), Sub(bufferTarget(i), i.cashOnHand))

\* deltas with the cash lever guarded by the Rule C result
deltas_BufferByRuleC(i) ==
    (IF passRuleB(i) THEN <<>>
     ELSE << [label |-> "Grow net worth (Rule B)", value |-> deltaNW_B(i)] >>)
    \o
    (IF passRuleC(i) THEN <<>>
     ELSE << [label |-> "Add side income", value |-> shortfallC(i)],
             [label |-> "Cut spending", value |-> shortfallC(i)],
             [label |-> "Grow net worth (Rule C)", value |-> deltaNW_C(i)],
             [label |-> "Hold more cash", value |-> bufferShort(i)] >>)

\* The candidate levers, those of failing rules only, in listing order
deltas(i) ==
    (IF passRuleB(i) THEN <<>>
     ELSE << [label |-> "Grow net worth (Rule B)", value |-> deltaNW_B(i)] >>)
    \o
    (IF passRuleC(i) THEN <<>>
     ELSE << [label |-> "Add side income", value |-> shortfallC(i)],
             [label |-> "Cut spending", value |-> shortfallC(i)],
             [label |-> "Grow net worth (Rule C)", value |-> deltaNW_C(i)] >>)
    \o
    (IF passBuffer(i) THEN <<>>
     ELSE << [label |-> "Hold more cash", value |-> bufferShort(i)] >>)

\* the reduce callback with a strict comparison (the later candidate wins a tie)
pick_Strict(a, b) == IF Lt(a.value, b.value) THEN a ELSE b

\* the reduce callback keeping the larger candidate
pick_Largest(a, b) == IF Ge(a.value, b.value) THEN a ELSE b

\* The callback of deltas.reduce: (a, b) => (a.value <= b.value ? a : b)
pick(a, b) == IF Le(a.value, b.value) THEN a ELSE b

\* Array.prototype.reduce without an initial value, on a non-empty sequence:
\* the accumulator starts as s[1] and takes the elements left to right
RECURSIVE reduceFrom(_, _, _)
reduceFrom(acc, s, k) ==
    IF k > Len(s) THEN acc ELSE reduceFrom(pick(acc, s[k]), s, k + 1)

best(i) == LET d == deltas(i) IN reduceFrom(d[1], d, 2)

\* "$" + currency(Math.max(0, Math.round(v))): the amount printed, a number
\* (the locale's digit grouping is not modelled)
pretty(v) == MathMax(Num(0), MathRound(v))

\* The sentence template chosen by the switch on best.label
sentence(label) ==
    CASE label = "Grow net worth (Rule B)"
           -> "Add about $X to net worth to get salary <= 10% of NW."
      [] label = "Add side income"
           -> "Add about $X/yr in side income to meet spending."
      [] label = "Cut spending"
           -> "Trim spending by about $X to meet coverage."
      [] label = "Grow net worth (Rule C)"
           -> "Add about $X to net worth so returns cover spending."
      [] label = "Hold more cash"
           -> "Hold about $X more in cash for a 6-month buffer."
      [] OTHER
           -> "Make the smallest change above to flip this to YES."

\* Single "next step" suggestion: the sentence and the amount printed in it
nextStep(i) ==
    IF Len(deltas(i)) = 0
    THEN [text |-> "You can coast.", amount |-> NaN]
    ELSE LET b == best(i)
         IN  [text |-> sentence(b.label), amount |-> pretty(b.value)]

\* ---- Return sensitivity (8-12%) ----
returnScenarios == << Rat(8, 100), Rat(9, 100), Rat(10, 100), Rat(11, 100), Rat(12, 100) >>

\* verdictForR with the close-band comparison turned round
verdictForR_BandReversed(i, r) ==
    LET atRet == Mul(Mul(i.netWorth, r), Sub(Num(1), i.investTaxRate))
        b == Le(salaryVsNW(i), TARGET_SALARY_VS_NW)
        c == Ge(Add(atRet, i.sideIncome), i.spend)
        buffer == passBuffer(i)
        cGapR == Div(Sub(Add(atRet, i.sideIncome), i.spend), i.spend)
        failing == << IF b THEN PosInf ELSE Sub(TARGET_SALARY_VS_NW, salaryVsNW(i)),
                      IF c THEN PosInf ELSE cGapR,
                      IF buffer THEN PosInf ELSE bufferGap(i) >>
        worst == MathMin(failing)
        yes == b /\ c /\ buffer
        close == ~yes /\ Le(worst, Neg(CLOSE_BAND_FRACTION))
        coverage == Div(Add(atRet, i.sideIncome), i.spend)
    IN  [r |-> r, yes |-> yes, close |-> close, coverage |-> coverage]

\* verdictForR computing the scenario return from investReturn instead of r
verdictForR_IgnoresR(i, r) ==
    LET atRet == afterTaxPortfolioReturn(i)
        b == passRuleB(i)
        c == Ge(Add(atRet, i.sideIncome), i.spend)
        buffer == passBuffer(i)
        cGapR == Div(Sub(Add(atRet, i.sideIncome), i.spend), i.spend)
        failing == << IF b THEN PosInf ELSE bGap(i),
                      IF c THEN PosInf ELSE cGapR,
                      IF buffer THEN PosInf ELSE bufferGap(i) >>
        worst == MathMin(failing)
        yes == b /\ c /\ buffer
        close == ~yes /\ Ge(worst, Neg(CLOSE_BAND_FRACTION))
        coverage == Div(Add(atRet, i.sideIncome), i.spend)
    IN  [r |-> r, yes |-> yes, close |-> close, coverage |-> coverage]

verdictForR(i, r) ==
    LET atRet == Mul(Mul(i.netWorth, r), Sub(Num(1), i.investTaxRate))
        b == Le(salaryVsNW(i), TARGET_SALARY_VS_NW)
        c == Ge(Add(atRet, i.sideIncome), i.spend)
        buffer == passBuffer(i)
        cGapR == Div(Sub(Add(atRet, i.sideIncome), i.spend), i.spend)
        failing == << IF b THEN PosInf ELSE Sub(TARGET_SALARY_VS_NW, salaryVsNW(i)),
                      IF c THEN PosInf ELSE cGapR,
                      IF buffer THEN PosInf ELSE bufferGap(i) >>
        worst == MathMin(failing)
        yes == b /\ c /\ buffer
        close == ~yes /\ Ge(worst, Neg(CLOSE_BAND_FRACTION))
        coverage == Div(Add(atRet, i.sideIncome), i.spend)
    IN  [r |-> r, yes |-> yes, close |-> close, coverage |-> coverage]

sensitivity(i) == [k \in 1..Len(returnScenarios) |-> verdictForR(i, returnScenarios[k])]

\* The label a sensitivity card shows for one scenario result
scenarioVerdict(s) == IF s.yes THEN "YES" ELSE IF s.close THEN "CLOSE" ELSE "NOT YET"

\* ===========================================================================
\* Properties
\* ===========================================================================
Rules == {"B", "C", "Buffer"}

Passes(i, x) ==
    CASE x = "B" -> passRuleB(i) [] x = "C" -> passRuleC(i) [] x = "Buffer" -> passBuffer(i)

GapOf(i, x) ==
    CASE x = "B" -> bGap(i) [] x = "C" -> cGap(i) [] x = "Buffer" -> bufferGap(i)

RuleOrder(x) == CASE x = "B" -> 1 [] x = "C" -> 2 [] x = "Buffer" -> 3

DriverLabel(x) ==
    CASE x = "B" -> "Salary too large vs net worth"
      [] x = "C" -> "Spending too high vs portfolio + side income"
      [] x = "Buffer" -> "Insufficient cash buffer"

FailingRules(i) == {x \in Rules : ~Passes(i, x)}

CoastText == "You can coast."

\* C1: when Rule B, Rule C and the Buffer rule all pass, the verdict is YES and
\* the next step is the coasting message; when at least one rule fails, the
\* verdict is not YES and the next step is not the coasting message.
C1_AllPassIffYesAndCoast ==
    LET i == Inputs
        ruleB == Le(salaryVsNW(i), Rat(1, 10))
        ruleC == Ge(Add(afterTaxPortfolioReturn(i), i.sideIncome), i.spend)
        ruleBuf == Ge(i.cashOnHand, Div(i.spend, Num(2)))
    IN  IF ruleB /\ ruleC /\ ruleBuf
        THEN verdict(i) = "YES" /\ nextStep(i).text = CoastText
        ELSE verdict(i) # "YES" /\ nextStep(i).text # CoastText

C1_Witness ==
    /\ FailingRules(Inputs) = {}
    /\ verdict(Inputs) = "YES"
    /\ nextStep(Inputs).text = CoastText

\* C2: with spend > 0 and at least one failing rule, the verdict is CLOSE iff
\* every failing rule's gap is >= -0.05 (exactly -0.05 included) and NOT YET
\* otherwise; the gaps of passing rules play no part.
C2_CloseBand ==
    LET i == Inputs
        F == FailingRules(i)
        within == \A x \in F : Ge(GapOf(i, x), Rat(-5, 100))
        v == verdict(i)
    IN  (Gt(i.spend, Num(0)) /\ F # {}) =>
            /\ v = "CLOSE" <=> within
            /\ v = "NOT YET" <=> ~within

C2_Witness ==
    /\ Gt(spend, Num(0))
    /\ \E x \in Rules : FailingRules(Inputs) = {x} /\ GapOf(Inputs, x) = Rat(-5, 100)
    /\ verdict(Inputs) = "CLOSE"

\* C3: with spend > 0, the driver names a failing rule whose gap is <= the gap
\* of every other failing rule, the earliest of B, C, Buffer among those that
\* share the minimum; it never names a passing rule; with no failing rule it is
\* the all-good label.
C3_DriverIsWorstFailing ==
    LET i == Inputs
        F == FailingRules(i)
        d == driver(i)
    IN  Gt(i.spend, Num(0)) =>
            IF F = {} THEN d = "You're good"
            ELSE \E x \in F :
                    /\ d = DriverLabel(x)
                    /\ \A y \in F : Le(GapOf(i, x), GapOf(i, y))
                    /\ \A y \in F : GapOf(i, y) = GapOf(i, x) => RuleOrder(x) <= RuleOrder(y)

C3_Witness ==
    /\ Gt(spend, Num(0))
    /\ FailingRules(Inputs) = {"C", "Buffer"}
    /\ cGap(Inputs) = bufferGap(Inputs)
    /\ driver(Inputs) = DriverLabel("C")

\* The five levers in listing order, each with the rule it belongs to
Levers(i) ==
    << [rule |-> "B", label |-> "Grow net worth (Rule B)", value |-> deltaNW_B(i)],
       [rule |-> "C", label |-> "Add side income", value |-> shortfallC(i)],
       [rule |-> "C", label |-> "Cut spending", value |-> shortfallC(i)],
       [rule |-> "C", label |-> "Grow net worth (Rule C)", value |-> deltaNW_C(i)],
       [rule |-> "Buffer", label |-> "Hold more cash", value |-> bufferShort(i)] >>

\* C4: when a rule fails, the next step is the sentence of the lever of least
\* magnitude among the levers of failing rules, the earlier-listed one on equal
\* magnitudes; the Rule C net-worth lever is infinite when
\* investReturn * (1 - investTaxRate) is 0 and is then not the one selected.
C4_CheapestLeverFirstListed ==
    LET i == Inputs
        F == FailingRules(i)
        L == Levers(i)
        C == {k \in 1..5 : L[k].rule \in F}
        text == nextStep(i).text
    IN  F # {} =>
            /\ \E k \in C :
                  /\ text = sentence(L[k].label)
                  /\ \A j \in C : Le(L[k].value, L[j].value)
                  /\ \A j \in C : j < k => L[j].value # L[k].value
            /\ ("C" \in F /\ Mul(i.investReturn, Sub(Num(1), i.investTaxRate)) = Num(0)) =>
                  /\ L[4].value = PosInf
                  /\ text # sentence("Grow net worth (Rule C)")

C4_Witness ==
    /\ FailingRules(Inputs) = Rules
    /\ atRetPerDollar(Inputs) = Num(0)
    /\ Lt(shortfallC(Inputs), deltaNW_B(Inputs))
    /\ shortfallC(Inputs) = bufferShort(Inputs)
    /\ nextStep(Inputs).text = sentence("Add side income")

\* C5: the sensitivity scan has 5 results for the rates 0.08 .. 0.12 in
\* ascending order; each result's verdict is the verdict of the evaluation of
\* the same inputs with investReturn replaced by the rate, its coverage is
\* (netWorth * r * (1 - investTaxRate) + sideIncome) / spend, and Rule B and
\* the Buffer rule have the same result in all 5 scenarios.
C5_ScanMatchesEvaluator ==
    LET i == Inputs
        f == sensitivity(i)
        s == <<f[1], f[2], f[3], f[4], f[5]>>
        ruleB == passRuleB(i)
        buffer == passBuffer(i)
    IN  /\ DOMAIN f = 1..5
        /\ \A k \in 1..5 :
              LET r == Rat(7 + k, 100)
                  e == [i EXCEPT !.investReturn = r]
              IN  /\ s[k].r = r
                  /\ scenarioVerdict(s[k]) = verdict(e)
                  /\ s[k].coverage =
                        Div(Add(Mul(Mul(i.netWorth, r), Sub(Num(1), i.investTaxRate)),
                                i.sideIncome), i.spend)
                  /\ passRuleB(e) = ruleB
                  /\ passBuffer(e) = buffer

C5_Witness ==
    LET s == sensitivity(Inputs)
    IN  /\ \A k \in 1..5 : investReturn # s[k].r
        /\ scenarioVerdict(s[1]) = "NOT YET"
        /\ scenarioVerdict(s[2]) = "CLOSE"
        /\ scenarioVerdict(s[5]) = "YES"
        /\ verdict(Inputs) = "NOT YET"

\* C6: of two inputs that differ only in netWorth, the second being larger:
\* if Rule B passes on the first it passes on the second, and the Rule B
\* required net-worth increase on the second is <= that on the first.
C6_RuleBMonotoneInNetWorth ==
    LET i == Inputs
    IN  \A n \in NetWorthTyped :
            LET j == [i EXCEPT !.netWorth = NumberInput(n)]
            IN  Gt(j.netWorth, i.netWorth) =>
                    /\ passRuleB(i) => passRuleB(j)
                    /\ Le(deltaNW_B(j), deltaNW_B(i))

C6_Witness ==
    LET i == Inputs
        at(n) == [i EXCEPT !.netWorth = NumberInput(n)]
    IN  /\ ~passRuleB(i)
        /\ \E n, m \in NetWorthTyped :
              /\ Gt(at(n).netWorth, i.netWorth)
              /\ Gt(at(m).netWorth, at(n).netWorth)
              /\ passRuleB(at(n)) /\ passRuleB(at(m))
              /\ Gt(afterTaxSalary(i), Num(0))
              /\ Lt(deltaNW_B(at(n)), deltaNW_B(i))

\* C7: with netWorth = 0 and salary > 0, whatever the other inputs (spend = 0,
\* sideIncome = 0 and cashOnHand = 0 included): salaryVsNW is +Infinity, Rule B
\* fails, its gap is -Infinity, and the driver is the Rule B label.
C7_ZeroNetWorthDriverIsRuleB ==
    LET i == Inputs
    IN  (i.netWorth = Num(0) /\ Gt(i.salary, Num(0))) =>
            /\ salaryVsNW(i) = PosInf
            /\ ~passRuleB(i)
            /\ bGap(i) = NegInf
            /\ driver(i) = "Salary too large vs net worth"

\* C8: for the default inputs (netWorth 3,000,000, salary 480,000, salary tax
\* 0.25, return 0.10, return tax 0.20, spend 180,000, side income 0, cash
\* 60,000): Rule B fails with gap -0.02, Rule C passes, the Buffer rule fails
\* with gap -1/3, the verdict is NOT YET, the driver is the cash-buffer label
\* and the next step is the hold-more-cash sentence with amount 30,000.
C8_DefaultScenario ==
    LET i == Inputs
    IN  (/\ netWorth = Num(3000000) /\ salary = Num(480000)
         /\ salaryTaxRate = Rat(25, 100) /\ investReturn = Rat(10, 100)
         /\ investTaxRate = Rat(20, 100) /\ spend = Num(180000)
         /\ sideIncome = Num(0) /\ cashOnHand = Num(60000)) =>
            /\ ~passRuleB(i) /\ bGap(i) = Rat(-2, 100)
            /\ passRuleC(i)
            /\ ~passBuffer(i) /\ bufferGap(i) = Rat(-1, 3)
            /\ verdict(i) = "NOT YET"
            /\ driver(i) = "Insufficient cash buffer"
            /\ nextStep(i).text = sentence("Hold more cash")
            /\ nextStep(i).amount = Num(30000)

C8_Witness ==
    /\ netWorth = Num(3000000) /\ salary = Num(480000)
    /\ salaryTaxRate = Rat(25, 100) /\ investReturn = Rat(10, 100)
    /\ investTaxRate = Rat(20, 100) /\ spend = Num(180000)
    /\ sideIncome = Num(0) /\ cashOnHand = Num(60000)
    /\ deltaNW_B(Inputs) = Num(600000)
    /\ nextStep(Inputs).amount = Num(30000)

\* The input snapshot after the one input named by a lever is changed by v
ApplyLever(i, label, v) ==
    CASE label = "Grow net worth (Rule B)" -> [i EXCEPT !.netWorth = Add(@, v)]
      [] label = "Add side income" -> [i EXCEPT !.sideIncome = Add(@, v)]
      [] label = "Cut spending" -> [i EXCEPT !.spend = Sub(@, v)]
      [] label = "Grow net worth (Rule C)" -> [i EXCEPT !.netWorth = Add(@, v)]
      [] label = "Hold more cash" -> [i EXCEPT !.cashOnHand = Add(@, v)]

\* C9: for every failing rule, applying its lever magnitude to its one input
\* makes that rule pass: deltaNW_B added to netWorth for Rule B; shortfallC
\* added to sideIncome, or subtracted from spend, or deltaNW_C (when finite)
\* added to netWorth for Rule C; bufferShort added to cashOnHand for the Buffer
\* rule; also at netWorth = 0 with afterTaxSalary = 0.  (Stated for
\* netWorth >= 0.)
C9_LeverFlipsItsRule ==
    LET i == Inputs
    IN  Ge(i.netWorth, Num(0)) =>
            /\ ~passRuleB(i) =>
                  passRuleB(ApplyLever(i, "Grow net worth (Rule B)", deltaNW_B(i)))
            /\ ~passRuleC(i) =>
                  /\ passRuleC(ApplyLever(i, "Add side income", shortfallC(i)))
                  /\ passRuleC(ApplyLever(i, "Cut spending", shortfallC(i)))
                  /\ IsFinite(deltaNW_C(i)) =>
                        passRuleC(ApplyLever(i, "Grow net worth (Rule C)", deltaNW_C(i)))
            /\ ~passBuffer(i) =>
                  passBuffer(ApplyLever(i, "Hold more cash", bufferShort(i)))

\* C10: applying the recommended next step (the selected lever, by the selected
\* magnitude) to inputs whose verdict is not YES yields inputs whose verdict
\* is YES.
C10_NextStepReachesYes ==
    LET i == Inputs
    IN  ~isYes(i) => verdict(ApplyLever(i, best(i).label, best(i).value)) = "YES"

\* C11 (as claimed): the amount printed in the next-step sentence is the
\* selected magnitude v >= 0 rounded up to a whole unit: the printed d
\* satisfies d >= v and d - v < 1, and d is never negative.
C11_AmountRoundedUp ==
    LET i == Inputs
    IN  ~isYes(i) =>
            LET v == best(i).value
                d == nextStep(i).amount
            IN  Ge(v, Num(0)) =>
                    /\ Ge(d, Num(0))
                    /\ Ge(d, v)
                    /\ Lt(Sub(d, v), Num(1))

\* C11 (amended): the amount printed in the next-step sentence is the selected
\* magnitude v >= 0 rounded to the nearest whole unit, halves upwards: the
\* printed d is a whole number, d >= 0 and -1/2 < d - v <= 1/2.
C11_AmountRoundedToNearest ==
    LET i == Inputs
    IN  ~isYes(i) =>
            LET v == best(i).value
                d == nextStep(i).amount
            IN  /\ Ge(v, Num(0)) /\ IsFinite(v)
                /\ IsFinite(d) /\ d[2] = 1
                /\ Ge(d, Num(0))
                /\ Gt(Sub(d, v), Rat(-1, 2))
                /\ Le(Sub(d, v), Rat(1, 2))

C11_Witness ==
    /\ ~isYes(Inputs)
    /\ best(Inputs).value = Rat(1, 4)
    /\ nextStep(Inputs).amount = Num(0)
    /\ nextStep(Inputs).text = sentence("Hold more cash")

VerdictRank(v) == CASE v = "NOT YET" -> 0 [] v = "CLOSE" -> 1 [] v = "YES" -> 2

InUnit(x) == Ge(x, Num(0)) /\ Le(x, Num(1))

\* C12: for inputs with netWorth >= 0, investTaxRate in [0,1] and spend > 0,
\* with the ranking NOT YET < CLOSE < YES the scenario verdict at a higher
\* scan rate is never lower than the verdict at a lower scan rate, and
\* coverage is non-decreasing along the 5 results.
C12_ScanMonotoneInRate ==
    LET i == Inputs
        f == sensitivity(i)
        s == <<f[1], f[2], f[3], f[4], f[5]>>
        rank == [k \in 1..5 |-> VerdictRank(scenarioVerdict(s[k]))]
    IN  (Ge(i.netWorth, Num(0)) /\ InUnit(i.investTaxRate) /\ Gt(i.spend, Num(0))) =>
            /\ \A j, k \in 1..5 : Lt(s[j].r, s[k].r) => rank[j] <= rank[k]
            /\ \A k \in 1..4 : Le(s[k].coverage, s[k + 1].coverage)

C12_Witness ==
    LET i == Inputs
        f == sensitivity(i)
        s == <<f[1], f[2], f[3], f[4], f[5]>>
    IN  /\ Gt(i.netWorth, Num(0)) /\ InUnit(i.investTaxRate) /\ Gt(i.spend, Num(0))
        /\ VerdictRank(scenarioVerdict(s[1])) = 0
        /\ \E k \in 2..4 : VerdictRank(scenarioVerdict(s[k])) = 1
        /\ VerdictRank(scenarioVerdict(s[5])) = 2
        /\ \A k \in 1..4 : Lt(s[k].coverage, s[k + 1].coverage)

\* C13: for inputs with investReturn and investTaxRate in [0,1], the next step
\* is never the "Cut spending" sentence and never the "Grow net worth
\* (Rule C)" sentence: when a Rule C lever is the cheapest candidate the
\* selected lever is "Add side income", the first two Rule C levers having the
\* same magnitude and shortfallC / (investReturn * (1 - investTaxRate)) being
\* >= shortfallC.
C13_RuleCLeverIsSideIncome ==
    LET i == Inputs
        L == Levers(i)
        F == FailingRules(i)
        C == {k \in 1..5 : L[k].rule \in F}
        text == nextStep(i).text
    IN  (InUnit(i.investReturn) /\ InUnit(i.investTaxRate)) =>
            /\ text # sentence("Cut spending")
            /\ text # sentence("Grow net worth (Rule C)")
            /\ "C" \in F =>
                  /\ L[2].value = L[3].value
                  /\ Ge(L[4].value, L[2].value)
                  /\ (\E k \in {2, 3, 4} : \A j \in C : Le(L[k].value, L[j].value)
                                                     /\ (j < 2 => L[j].value # L[k].value))
                        => text = sentence("Add side income")

C13_Witness ==
    LET i == Inputs
        L == Levers(i)
    IN  /\ InUnit(i.investReturn) /\ InUnit(i.investTaxRate)
        /\ FailingRules(i) = Rules
        /\ IsFinite(L[4].value)
        /\ Lt(L[2].value, L[1].value) /\ Lt(L[2].value, L[5].value)
        /\ nextStep(i).text = sentence("Add side income")

====
